---- MODULE Spec2Model ----
(***************************************************************************)
(* Web-Crawling-Pipeline: the crawl loop of StaticCrawler.crawl, the       *)
(* retrying fetch BaseCrawler.get_page / DynamicCrawler.get_page, the      *)
(* dedup ledger of TextProcessor and the multipart text stream of          *)
(* S3Storage.stream_processed_text_data.                                   *)
(***************************************************************************)
EXTENDS Integers, Sequences, FiniteSets, TLC

VARIABLES
  \* ---- crawler object (StaticCrawler.__init__, BaseCrawler.__init__)
  site,            \* the web site: URL -> page (text, hrefs); the environment
  base_url,        \* self.base_url
  page_limit,      \* self.page_limit
  is_dynamic,      \* FALSE: BaseCrawler.get_page, TRUE: DynamicCrawler.get_page
  max_retries,     \* self.max_retries
  delay,           \* self.delay
  visited_urls,    \* self.visited_urls
  content_hashes,  \* self.text_processor.content_hashes
  max_hashes,      \* self.text_processor.max_hashes
  metrics,         \* self.metrics
  \* ---- one call of crawl()
  pc,              \* position of crawl(): "idle", "loop", "yielded", "resume",
                   \* "post", "done", "failed"
  runs,            \* number of crawl() calls started on this object
  to_visit,        \* local to_visit
  crawled_data,    \* local crawled_data (URLs of the Page Records)
  pages_processed, \* local pages_processed
  cur,             \* the page the generator is suspended on at its yield
  err,             \* the exception that ended the run, "none" if there is none
  saved,           \* the finally clause of _crawl has saved the logger metrics
  \* ---- observation of the run (history, not program state)
  popLog,          \* URLs popped from to_visit, in order
  enqLog,          \* URLs appended to to_visit, in order
  fetchLog,        \* URLs get_page was called for, in order
  failedLog,       \* URLs for which get_page returned None
  outcomeLog,      \* what became of each fetch of fetchLog: "raise", "failed",
                   \* "parse_error", "dup", "page"
  \* ---- S3Storage.stream_processed_text_data and the object store
  buffer, buffer_size, part_number, parts,
  upload,          \* multipart session: "none", "open", "committed", "aborted"
  completeArg,     \* the Parts handed to complete_multipart_upload, or NoArg
  objects,         \* the object store: key -> decompressed body
  \* ---- one call of get_page per strategy on given attempt outcomes
  outcomes,        \* outcome of the k-th attempt: "ok", "reqerr", "othererr"
  gp,              \* strategy -> result of get_page, or NoCall
  \* ---- last call of TextProcessor.is_duplicate
  lastCall,
  \* ---- calculate_content_hash on two texts
  hashArgs,        \* the two texts
  hashRes,         \* their fingerprints, or NoHash
  \* ---- one call of main.crawl_websites
  creds,           \* config: which of access key, secret key, bucket are set
  website_names,   \* the argument website_names
  mpc,             \* position of crawl_websites: "off", "start", "next",
                   \* "crawl", "raw", "returned", "raised"
  idx,             \* index in website_names of the site being handled
  results,         \* the results dictionary
  crawlers,        \* number of crawler objects created
  raw,             \* locals of stream_raw_data's multipart path
  \* ---- one call of NewsApiClient.fetch_logistics_news
  newsIn,          \* what the sources return
  newsOut,         \* the dictionary returned, or NoNews
  \* ---- two crawler objects with interleaved crawl loops
  crs,             \* crawler -> its fields and the locals of its crawl()
  heap,            \* object id -> the set object (a visited set or a ledger)
  who              \* the crawler that took the last step, 0 at the start

crawlerVars == <<site, base_url, page_limit, is_dynamic, visited_urls, metrics>>
runVars     == <<pc, runs, to_visit, crawled_data, pages_processed, cur, err,
                 saved>>
logVars     == <<popLog, enqLog, fetchLog, failedLog, outcomeLog>>
streamVars  == <<buffer, buffer_size, part_number, parts, upload, completeArg,
                 objects>>
fetchVars   == <<max_retries, delay, outcomes, gp>>
dedupVars   == <<content_hashes, max_hashes, lastCall>>
hashVars    == <<hashArgs, hashRes>>
mainVars    == <<creds, website_names, mpc, idx, results, crawlers, raw>>
newsVars    == <<newsIn, newsOut>>
twoVars     == <<crs, heap, who>>
vars == <<crawlerVars, runVars, logVars, streamVars, fetchVars, dedupVars,
          hashVars, mainVars, newsVars, twoVars>>

(***************************************************************************)
(* Bounds of the model.                                                    *)
(***************************************************************************)
MaxPageLimit == 3      \* page_limit ranges over 1..MaxPageLimit
MaxRuns      == 2      \* crawl() is called at most MaxRuns times per object
MaxRetries   == 3      \* max_retries ranges over 0..MaxRetries in SpecFetch
MaxDelay     == 2      \* delay ranges over 1..MaxDelay in SpecFetch
MaxHashes    == 2      \* max_hashes ranges over 1..MaxHashes
MaxTextLen   == 3      \* texts handed to is_duplicate have at most this length
MaxHashLen   == 4      \* texts handed to calculate_content_hash in SpecHash

(***************************************************************************)
(* Program constants.                                                      *)
(***************************************************************************)
MAX_RETRIES   == 1     \* config.MAX_RETRIES
REQUEST_DELAY == 1     \* config.REQUEST_DELAY
WAIT_TIME     == 5     \* DynamicCrawler.wait_time default
CHUNK_SIZE    == 3     \* chunk_size of calculate_content_hash, scaled from 100000
MAX_BUFFER_SIZE == 2   \* max_buffer_size of the text stream, scaled from 5 MiB

Min(a, b) == IF a < b THEN a ELSE b

(***************************************************************************)
(* Texts and the content fingerprint (TextProcessor.calculate_content_hash)*)
(***************************************************************************)
Chars == {"a", "A", " "}

RECURSIVE SeqsUpTo(_, _)
SeqsUpTo(S, n) ==
  IF n = 0 THEN {<<>>}
  ELSE LET shorter == SeqsUpTo(S, n - 1)
       IN  shorter \cup {Append(s, c) : s \in shorter, c \in S}

Texts == SeqsUpTo(Chars, MaxTextLen)

\* str.lower()
Lower(s) == [i \in 1..Len(s) |-> IF s[i] = "A" THEN "a" ELSE s[i]]

\* str.split(): the maximal runs of non-whitespace characters
RECURSIVE SplitFrom(_, _, _)
SplitFrom(s, word, acc) ==
  IF s = <<>> THEN (IF word = <<>> THEN acc ELSE Append(acc, word))
  ELSE IF Head(s) = " "
       THEN SplitFrom(Tail(s), <<>>, IF word = <<>> THEN acc ELSE Append(acc, word))
       ELSE SplitFrom(Tail(s), Append(word, Head(s)), acc)

Split(s) == SplitFrom(s, <<>>, <<>>)

\* ' '.join(words)
RECURSIVE Join(_)
Join(words) ==
  IF words = <<>> THEN <<>>
  ELSE IF Len(words) = 1 THEN words[1]
       ELSE words[1] \o <<" ">> \o Join(Tail(words))

\* ' '.join(chunk.lower().split())
NormalizeChunk(chunk) == Join(Split(Lower(chunk)))

\* The bytes fed to the md5 hasher, chunk by chunk from offset i (0-based).
\* The digest is modelled by the bytes it is a digest of (md5 taken as
\* collision-free).
RECURSIVE HashFrom(_, _)
HashFrom(text, i) ==
  IF i >= Len(text) THEN <<>>
  ELSE NormalizeChunk(SubSeq(text, i + 1, Min(i + CHUNK_SIZE, Len(text))))
         \o HashFrom(text, i + CHUNK_SIZE)

calculate_content_hash(text) == HashFrom(text, 0)

(***************************************************************************)
(* get_page: the retrying fetch, as a function of the attempts' outcomes.  *)
(* A result records what was returned, how many attempts were made and the *)
(* trace of attempts and sleeps.                                           *)
(***************************************************************************)
Outcome == {"ok", "reqerr", "othererr"}

AttemptEv(n)   == [e |-> "attempt", n |-> n, why |-> "get"]
SleepEv(d, w)  == [e |-> "sleep", n |-> d, why |-> w]

\* BaseCrawler._respect_robots_txt: a stub that allows every URL
RespectRobotsTxt(url) == TRUE

\* a retry loop that gives up one attempt early
AttemptsLeft_OneShort(attempt, mr) == attempt < mr - 1

\* for attempt in range(self.max_retries): is there an iteration for attempt?
AttemptsLeft(attempt, mr) == attempt < mr

\* a backoff that grows with the 0-based index itself
BackoffDelay_Index(d, attempt) == d * attempt

\* time.sleep(self.delay * (attempt + 1)) before a retry
BackoffDelay(d, attempt) == d * (attempt + 1)

\* BaseCrawler.get_page, loop body from the 0-based index attempt on
RECURSIVE DirectFrom(_, _, _, _, _)
DirectFrom(outs, attempt, mr, d, trace) ==
  IF ~AttemptsLeft(attempt, mr)
  THEN [result |-> "none", body |-> 0, attempts |-> attempt, trace |-> trace]
  ELSE LET t1 == IF attempt > 0
                 THEN Append(trace, SleepEv(BackoffDelay(d, attempt), "backoff"))
                 ELSE trace
           t2 == Append(t1, AttemptEv(attempt + 1))
       IN  CASE outs[attempt + 1] = "ok" ->
                  [result |-> "body", body |-> attempt + 1,
                   attempts |-> attempt + 1,
                   trace |-> Append(t2, SleepEv(d, "polite"))]
             [] outs[attempt + 1] = "reqerr" ->
                  DirectFrom(outs, attempt + 1, mr, d, t2)
             [] OTHER ->
                  [result |-> "raise", body |-> 0,
                   attempts |-> attempt + 1, trace |-> t2]

\* DynamicCrawler.get_page, loop body from the 0-based index attempt on
RECURSIVE RenderedFrom(_, _, _, _, _)
RenderedFrom(outs, attempt, mr, d, trace) ==
  IF attempt >= mr
  THEN [result |-> "none", body |-> 0, attempts |-> attempt, trace |-> trace]
  ELSE LET t1 == Append(trace, AttemptEv(attempt + 1))
       IN  IF outs[attempt + 1] = "ok"
           THEN [result |-> "body", body |-> attempt + 1,
                 attempts |-> attempt + 1,
                 trace |-> t1 \o <<SleepEv(WAIT_TIME, "render"),
                                   SleepEv(d, "polite")>>]
           ELSE RenderedFrom(outs, attempt + 1, mr, d,
                  IF attempt < mr - 1
                  THEN Append(t1, SleepEv(d * (attempt + 1), "backoff"))
                  ELSE t1)

get_page(dynamic, url, outs, mr, d) ==
  IF ~RespectRobotsTxt(url)
  THEN [result |-> "none", body |-> 0, attempts |-> 0, trace |-> <<>>]
  ELSE IF dynamic THEN RenderedFrom(outs, 0, mr, d, <<>>)
                  ELSE DirectFrom(outs, 0, mr, d, <<>>)

\* a ledger that is never truncated
Evictions_None(hashes, mh) == {hashes}

(***************************************************************************)
(* TextProcessor.is_duplicate.  list(set)[-max_hashes:] keeps the last     *)
(* max_hashes elements in the set's iteration order, which the program     *)
(* does not control: any subset of that size can be the one kept.          *)
(***************************************************************************)
Evictions(hashes, mh) ==
  IF Cardinality(hashes) >= mh
  THEN {k \in SUBSET hashes : Cardinality(k) = Min(mh, Cardinality(hashes))}
  ELSE {hashes}

\* the possible outcomes of is_duplicate(text): the value returned and the
\* ledger left behind
is_duplicate(text, hashes, mh) ==
  LET h == calculate_content_hash(text)
  IN  {[dup |-> h \in k, hashes |-> k \cup {h}] : k \in Evictions(hashes, mh)}

(***************************************************************************)
(* Values of the variables a specification does not use.                   *)
(***************************************************************************)
NoCall == [result |-> "nocall", body |-> 0, attempts |-> 0, trace |-> <<>>]
NoDedupCall == [made |-> FALSE, text |-> <<>>, result |-> FALSE,
                fresh |-> FALSE, again |-> FALSE]
NoMetrics == [total_pages |-> 0, successful_crawls |-> 0, failed_crawls |-> 0,
              ended |-> FALSE]

CrawlerOff ==
  /\ site = <<>> /\ base_url = <<>> /\ page_limit = 0 /\ is_dynamic = FALSE
  /\ visited_urls = {} /\ metrics = NoMetrics
RunOff ==
  /\ pc = "off" /\ runs = 0 /\ to_visit = <<>> /\ crawled_data = <<>>
  /\ pages_processed = 0 /\ cur = <<>> /\ err = "none" /\ saved = FALSE
LogOff ==
  /\ popLog = <<>> /\ enqLog = <<>> /\ fetchLog = <<>> /\ failedLog = <<>>
  /\ outcomeLog = <<>>
NoArg == <<[PartNumber |-> 0, body |-> <<>>]>>
StreamOff ==
  /\ buffer = <<>> /\ buffer_size = 0 /\ part_number = 1 /\ parts = <<>>
  /\ upload = "none" /\ completeArg = NoArg /\ objects = <<>>
FetchOff ==
  /\ max_retries = MAX_RETRIES /\ delay = REQUEST_DELAY
  /\ outcomes = <<>> /\ gp = [d \in BOOLEAN |-> NoCall]
DedupOff == content_hashes = {} /\ max_hashes = 1 /\ lastCall = NoDedupCall
NoHash  == <<>>
HashOff == hashArgs = <<>> /\ hashRes = NoHash
NoRaw == [all_data |-> <<>>, parts |-> <<>>, part_number |-> 1,
          upload |-> "none", completeArg |-> NoArg, offset |-> 0]
NoResults == [websites |-> <<>>, successful_crawls |-> 0, failed_crawls |-> 0]
MainOff ==
  /\ creds = <<>> /\ website_names = <<>> /\ mpc = "off" /\ idx = 0
  /\ results = NoResults /\ crawlers = 0 /\ raw = NoRaw
NoNews  == [articles |-> <<>>, total_articles |-> -1]
NewsOff == newsIn = <<>> /\ newsOut = NoNews
TwoOff  == crs = <<>> /\ heap = <<>> /\ who = 0

(***************************************************************************)
(* SpecFetch: get_page of both strategies on the same attempt outcomes.    *)
(***************************************************************************)
FetchUrl == <<"ex.com">>

FetchOther == <<"ex.com", "a">>

\* the crawler state a get_page call finds: the queue of the crawl() that
\* called it, the visited set and the dedup ledger
FetchStates ==
  [to_visit : {<<>>, <<FetchOther>>},
   visited_urls : {{}, {FetchUrl}, {FetchOther}},
   content_hashes : {{}, {<<"a">>}}]

InitFetch ==
  /\ site = <<>> /\ base_url = <<>> /\ page_limit = 0 /\ is_dynamic = FALSE
  /\ metrics = NoMetrics
  /\ pc = "off" /\ runs = 0 /\ crawled_data = <<>>
  /\ pages_processed = 0 /\ cur = <<>> /\ err = "none" /\ saved = FALSE
  /\ \E st \in FetchStates :
       /\ to_visit = st.to_visit
       /\ visited_urls = st.visited_urls
       /\ content_hashes = st.content_hashes
  /\ max_hashes = 1 /\ lastCall = NoDedupCall
  /\ LogOff /\ StreamOff /\ HashOff
  /\ MainOff /\ NewsOff /\ TwoOff
  /\ max_retries \in 0..MaxRetries
  /\ delay \in 1..MaxDelay
  /\ outcomes \in [1..max_retries -> Outcome]
  /\ gp = [d \in BOOLEAN |-> NoCall]

\* a get_page that records the URL it fetched as visited
GetPageEffect_MarksVisited(st, url, r) ==
  IF r.result = "body"
  THEN [st EXCEPT !.visited_urls = @ \cup {url}]
  ELSE st

\* what a get_page call with result r leaves of the crawler state st: neither
\* strategy assigns to the queue, the visited set or the ledger
GetPageEffect(st, url, r) == st

CallGetPage(dynamic) ==
  /\ pc = "off"
  /\ gp[dynamic] = NoCall
  /\ LET r  == get_page(dynamic, FetchUrl, outcomes, max_retries, delay)
         st == GetPageEffect([to_visit |-> to_visit,
                              visited_urls |-> visited_urls,
                              content_hashes |-> content_hashes], FetchUrl, r)
     IN  /\ gp' = [gp EXCEPT ![dynamic] = r]
         /\ to_visit' = st.to_visit
         /\ visited_urls' = st.visited_urls
         /\ content_hashes' = st.content_hashes
  /\ UNCHANGED <<site, base_url, page_limit, is_dynamic, metrics, pc, runs,
                 crawled_data, pages_processed, cur, err, saved, max_hashes,
                 lastCall, logVars, streamVars, hashVars, mainVars,
                 max_retries, delay, outcomes, newsVars, twoVars>>

CallDirect   == CallGetPage(FALSE)
CallRendered == CallGetPage(TRUE)

NextFetch == CallDirect \/ CallRendered
SpecFetch == InitFetch /\ [][NextFetch]_vars

(***************************************************************************)
(* SpecDedup: a sequence of is_duplicate calls on one TextProcessor.       *)
(***************************************************************************)
InitDedup ==
  /\ CrawlerOff /\ RunOff /\ LogOff /\ StreamOff /\ FetchOff /\ HashOff
  /\ MainOff /\ NewsOff /\ TwoOff
  /\ content_hashes = {}
  /\ max_hashes \in 1..MaxHashes
  /\ lastCall = NoDedupCall

IsDuplicateCall ==
  /\ pc = "off"
  /\ \E text \in Texts :
       \E r \in is_duplicate(text, content_hashes, max_hashes) :
         /\ content_hashes' = r.hashes
         /\ lastCall' =
              [made |-> TRUE, text |-> text, result |-> r.dup,
               fresh |-> calculate_content_hash(text) \notin content_hashes,
               again |-> lastCall.made /\ lastCall.fresh /\ lastCall.text = text]
  /\ UNCHANGED <<crawlerVars, runVars, logVars, streamVars, fetchVars,
                 hashVars, mainVars, max_hashes, newsVars,
                 twoVars>>

NextDedup == IsDuplicateCall
SpecDedup == InitDedup /\ [][NextDedup]_vars

(***************************************************************************)
(* SpecHash: calculate_content_hash applied to two texts.                  *)
(***************************************************************************)
HashTexts == SeqsUpTo(Chars, MaxHashLen)

InitHash ==
  /\ CrawlerOff /\ RunOff /\ LogOff /\ StreamOff /\ FetchOff /\ DedupOff
  /\ MainOff /\ NewsOff /\ TwoOff
  /\ hashArgs \in HashTexts \X HashTexts
  /\ hashRes = NoHash

CalculateContentHash ==
  /\ pc = "off"
  /\ hashRes = NoHash
  /\ hashRes' = [i \in 1..2 |-> calculate_content_hash(hashArgs[i])]
  /\ UNCHANGED <<crawlerVars, runVars, logVars, streamVars, fetchVars,
                 dedupVars, hashArgs, mainVars, newsVars,
                 twoVars>>

NextHash == CalculateContentHash
SpecHash == InitHash /\ [][NextHash]_vars

(***************************************************************************)
(* The web site the crawler runs against.  A URL is the sequence of its    *)
(* host and path segments; a page has a text and a list of hrefs.          *)
(***************************************************************************)
Root == <<"ex.com">>
PA   == <<"ex.com", "a">>
PB   == <<"ex.com", "b">>
PC   == <<"ex.com", "c">>
Ext  == <<"external.com", "b">>

Abs(u)  == [kind |-> "abs", target |-> u]       \* href="https://host/path"
Rel(p)  == [kind |-> "rel", target |-> p]       \* href="/path"
Anchor  == [kind |-> "anchor", target |-> <<>>] \* href="#top"
Js      == [kind |-> "js", target |-> <<>>]     \* href="javascript:..."

Page(t, hs) == [text |-> t, hrefs |-> hs]
EmptyPage   == Page(<<>>, <<>>)

\* ex.com -> ex.com/a -> ex.com/b -> ex.com/c, pairwise distinct content
LinearSite ==
  (Root :> Page(<<"a">>, <<Abs(PA)>>)) @@
  (PA   :> Page(<<"a", "a">>, <<Abs(PB)>>)) @@
  (PB   :> Page(<<"a", "a", "a">>, <<Abs(PC)>>)) @@
  (PC   :> Page(<<>>, <<>>))

\* cycles, an external link, a repeated link, skipped hrefs, and two pages
\* (a and b) whose texts differ only in case
WebSite ==
  (Root :> Page(<<"a">>, <<Rel(<<"a">>), Abs(PB), Abs(Ext), Anchor, Abs(PA)>>)) @@
  (PA   :> Page(<<"a", "a">>, <<Abs(PC), Abs(Root)>>)) @@
  (PB   :> Page(<<"A", "A">>, <<Abs(PC)>>)) @@
  (PC   :> Page(<<"a", "a", "a">>, <<Abs(PA), Js, Abs(Ext)>>))

\* every page links to every other one, the root's text is repeated on a
MeshSite ==
  (Root :> Page(<<"a", " ">>, <<Abs(PA), Abs(PB), Abs(PC)>>)) @@
  (PA   :> Page(<<" ", "A">>, <<Abs(Root), Abs(PB), Abs(PC)>>)) @@
  (PB   :> Page(<<"a", "a">>, <<Abs(Root), Abs(PA), Abs(PC)>>)) @@
  (PC   :> Page(<<>>, <<Abs(Root), Abs(PA), Abs(PB)>>))

Sites == {LinearSite, WebSite, MeshSite}

\* what a successful fetch of url returns
PageOf(url) == IF url \in DOMAIN site THEN site[url] ELSE EmptyPage

Range(s) == {s[i] : i \in DOMAIN s}

(***************************************************************************)
(* StaticCrawler.extract_links and the enqueue loop of the crawl loop.     *)
(***************************************************************************)
StartsWith(u, prefix) ==
  Len(prefix) <= Len(u) /\ SubSeq(u, 1, Len(prefix)) = prefix

\* urllib.parse.urljoin(base, href) for absolute and root-relative hrefs
urljoin(base, href) ==
  IF href.kind = "abs" THEN href.target ELSE <<base[1]>> \o href.target

\* a link filter that lets every link through
SharesBase_Any(absolute_url, base) == TRUE

\* absolute_url.startswith(self.base_url)
SharesBase(absolute_url, base) == StartsWith(absolute_url, base)

RECURSIVE extract_links(_, _, _)
extract_links(hrefs, page_url, base) ==
  IF hrefs = <<>> THEN <<>>
  ELSE LET href == Head(hrefs)
           rest == extract_links(Tail(hrefs), page_url, base)
       IN  IF href.kind \in {"empty", "anchor", "js"} THEN rest
           ELSE IF SharesBase(urljoin(page_url, href), base)
                THEN <<urljoin(page_url, href)>> \o rest
                ELSE rest

\* a test that forgets the links already waiting in the queue
IsNewLink_NotVisited(link, tv, visited) == link \notin visited

\* if link not in self.visited_urls and link not in to_visit
IsNewLink(link, tv, visited) == link \notin visited /\ link \notin Range(tv)

\* for link in links: if <the link is new>: to_visit.append(link)
RECURSIVE Enqueue(_, _, _)
Enqueue(tv, links, visited) ==
  IF links = <<>> THEN tv
  ELSE Enqueue(IF IsNewLink(Head(links), tv, visited)
               THEN Append(tv, Head(links)) ELSE tv,
               Tail(links), visited)

\* a loop that stops only when the queue is empty
LoopCond_NoLimit(tv, visited, limit) == tv # <<>>

\* a loop that lets one page too many through
LoopCond_OffByOne(tv, visited, limit) ==
  tv # <<>> /\ Cardinality(visited) <= limit

\* while to_visit and len(self.visited_urls) < self.page_limit
LoopCond(tv, visited, limit) == tv # <<>> /\ Cardinality(visited) < limit

\* a pop that takes the newest URL
Pop_Last(tv) == [url |-> tv[Len(tv)], rest |-> SubSeq(tv, 1, Len(tv) - 1)]

\* a pop that leaves the URL in the queue
Pop_Keep(tv) == [url |-> Head(tv), rest |-> tv]

\* url = to_visit.pop(0)
Pop(tv) == [url |-> Head(tv), rest |-> Tail(tv)]

\* the history logs hold up to MaxLog entries
MaxLog == 12
Log(log, xs) == IF Len(log) + Len(xs) <= MaxLog THEN log \o xs ELSE log

\* len(str(chunk)) of a Text-Analysis Record, in units of the part threshold
RecordSize(url) == 1

(***************************************************************************)
(* Spec: crawl() of one crawler object, called up to MaxRuns times.  The   *)
(* generator text_data_generator is driven by the for loop of              *)
(* stream_processed_text_data: LoopIter is one iteration of the while loop *)
(* up to its continue, its raise or its yield; Consume is the body of the  *)
(* consumer's for loop on the yielded record; Resume is the rest of the    *)
(* iteration after the yield.                                              *)
(***************************************************************************)
TextKey(run)    == [kind |-> "text", run |-> run]
SummaryKey(run) == [kind |-> "summary", run |-> run]
SitemapKey(run) == [kind |-> "sitemap", run |-> run]

\* put_object, and a completed multipart upload: the object at the key
Put(objs, key, body) == (key :> body) @@ objs

\* the body of the object a completed session leaves: its parts, in order
RECURSIVE Combined(_)
Combined(ps) == IF ps = <<>> THEN <<>> ELSE Head(ps).body \o Combined(Tail(ps))

\* the test 'UploadId' in locals() of the ClientError handlers: the locals
\* are self, source, data_generator, filename, timestamp, s3_key, mpu, ...
UploadIdInLocals == FALSE

\* the ClientError handler of the streaming operations on the open session
OnClientError(up) == IF UploadIdInLocals THEN "aborted" ELSE up

\* a finally clause that runs on success only
Finally_OnSuccess == saved' = (pc' = "done")

\* finally: self.logger.save_metrics(), when _crawl returns or raises
Finally == saved' = (pc' \in {"done", "failed"})

\* a failed fetch that raises out of the generator
AfterFailedFetch_Raise == "failed"

\* if not html: log a warning; continue
AfterFailedFetch == "loop"

\* an upload only when the buffer is over the threshold
AtThreshold_Over(size) == size > MAX_BUFFER_SIZE

\* if buffer_size >= max_buffer_size
AtThreshold(size) == size >= MAX_BUFFER_SIZE

\* a loop that fetches visited URLs again
AlreadyVisited_Never(url, visited) == FALSE

\* if url in self.visited_urls: continue
AlreadyVisited(url, visited) == url \in visited

\* a Page Record that is appended twice
PageAppend_Twice(data, page) == Append(Append(data, page), page)

\* crawled_data.append(page_data)
PageAppend(data, page) == Append(data, page)

\* a metrics update that also clears failed_crawls
UpdatedMetrics_Clear(m, visited) ==
  [m EXCEPT !.ended = TRUE, !.total_pages = Cardinality(visited),
            !.successful_crawls = Cardinality(visited), !.failed_crawls = 0]

\* end_time, total_pages and successful_crawls of _post_crawl_processing
UpdatedMetrics(m, visited) ==
  [m EXCEPT !.ended = TRUE, !.total_pages = Cardinality(visited),
            !.successful_crawls = Cardinality(visited)]

\* a consumer that drops the record it was handed
BufferAppend_Skip(buf, chunk) == buf

\* buffer.append(chunk)
BufferAppend(buf, chunk) == Append(buf, chunk)

\* json.dumps of a list of records: the tokens of one JSON array
RECURSIVE JsonItems(_)
JsonItems(recs) ==
  IF recs = <<>> THEN <<>>
  ELSE IF Len(recs) = 1 THEN <<recs[1]>>
       ELSE <<recs[1], <<",">>>> \o JsonItems(Tail(recs))

JsonDumps(recs) == <<<<"[">>>> \o JsonItems(recs) \o <<<<"]">>>>

\* what a reader of the committed object decompresses: every part is a gzip
\* member of its own, and the members decompress one after the other
RECURSIVE Decompressed(_)
Decompressed(ps) ==
  IF ps = <<>> THEN <<>> ELSE JsonDumps(Head(ps).body) \o Decompressed(Tail(ps))

\* a final flush that never happens
HasFinalPart_Never(buf) == FALSE

\* if buffer: upload the remaining records as the final part
HasFinalPart(buf) == buf # <<>>

\* a part counter that is not advanced
NextPartNumber_Same(n) == n

\* part_number += 1
NextPartNumber(n) == n + 1

\* a sitemap of nothing
SitemapUrls_None(visited) == {}

\* "urls": list(self.visited_urls)
SitemapUrls(visited) == visited

\* a part written with put_object at the target key
AfterUploadPart_Put(objs, key, ps) == Put(objs, key, Decompressed(ps))

\* upload_part: the part belongs to the session, the key's object is untouched
AfterUploadPart(objs, key, ps) == objs

Init ==
  /\ site \in Sites
  /\ base_url = Root
  /\ page_limit \in 1..MaxPageLimit
  /\ is_dynamic \in BOOLEAN
  /\ visited_urls = {}
  /\ metrics = NoMetrics
  /\ pc = "idle" /\ runs = 0 /\ to_visit = <<>> /\ crawled_data = <<>>
  /\ pages_processed = 0 /\ cur = <<>> /\ err = "none" /\ saved = FALSE
  /\ LogOff /\ StreamOff
  /\ FetchOff
  /\ content_hashes = {} /\ max_hashes \in 1..MaxHashes /\ lastCall = NoDedupCall
  /\ HashOff /\ MainOff /\ NewsOff /\ TwoOff

\* crawl() up to the first pull from the generator: the locals of _crawl and
\* create_multipart_upload at the head of stream_processed_text_data
StartCrawl ==
  /\ \/ mpc = "off" /\ pc \in {"idle", "done", "failed"} /\ runs < MaxRuns
     \/ mpc = "crawl" /\ pc = "idle"
  /\ runs' = runs + 1
  /\ to_visit' = <<base_url>>
  /\ crawled_data' = <<>>
  /\ pages_processed' = 0
  /\ cur' = <<>>
  /\ popLog' = <<>> /\ fetchLog' = <<>> /\ failedLog' = <<>> /\ outcomeLog' = <<>>
  /\ enqLog' = <<base_url>>
  /\ buffer' = <<>> /\ buffer_size' = 0 /\ part_number' = 1 /\ parts' = <<>>
  /\ completeArg' = NoArg
  /\ \E created \in BOOLEAN :
       IF created THEN upload' = "open" /\ pc' = "loop" /\ err' = "none"
                  ELSE upload' = "none" /\ pc' = "failed" /\ err' = "create"
  /\ Finally
  /\ UNCHANGED <<crawlerVars, objects, fetchVars, dedupVars, hashVars, mainVars, newsVars,
                 twoVars>>

\* StaticCrawler.parse on a fetched page: it returns, or an extraction step
\* raises before the dedup check, or the entity extraction raises after it
ParseOutcome == {"ok", "extract_error", "nlp_error"}

\* one iteration of the while loop, from the pop to continue, raise or yield.
\* An exception leaves the generator, passes the except Exception clause of
\* stream_processed_text_data and that of _crawl, and ends the run.
LoopIter ==
  /\ pc = "loop"
  /\ LoopCond(to_visit, visited_urls, page_limit)
  /\ LET url == Pop(to_visit).url
     IN
     /\ to_visit' = Pop(to_visit).rest
     /\ popLog' = Log(popLog, <<url>>)
     /\ IF AlreadyVisited(url, visited_urls)
        THEN UNCHANGED <<pc, cur, err, visited_urls, content_hashes, fetchLog,
                         failedLog, outcomeLog>>
        ELSE \E outs \in [1..max_retries -> Outcome] :
               LET r == get_page(is_dynamic, url, outs, max_retries, delay)
               IN
               /\ fetchLog' = Log(fetchLog, <<url>>)
               /\ CASE r.result = "raise" ->
                         /\ pc' = "failed" /\ err' = "fetch"
                         /\ outcomeLog' = Log(outcomeLog, <<"raise">>)
                         /\ UNCHANGED <<cur, visited_urls, content_hashes, failedLog>>
                    [] r.result = "none" ->
                         /\ failedLog' = Log(failedLog, <<url>>)
                         /\ outcomeLog' = Log(outcomeLog, <<"failed">>)
                         /\ pc' = AfterFailedFetch
                         /\ err' = IF pc' = "failed" THEN "fetch" ELSE err
                         /\ UNCHANGED <<cur, visited_urls, content_hashes>>
                    [] OTHER ->
                         /\ visited_urls' = visited_urls \cup {url}
                         /\ failedLog' = failedLog
                         /\ \E parsed \in ParseOutcome :
                              IF parsed = "extract_error"
                              THEN /\ pc' = "failed" /\ err' = "parse"
                                   /\ outcomeLog' = Log(outcomeLog, <<"parse_error">>)
                                   /\ UNCHANGED <<cur, content_hashes>>
                              ELSE \E dd \in is_duplicate(PageOf(url).text,
                                                content_hashes, max_hashes) :
                                     /\ content_hashes' = dd.hashes
                                     /\ CASE dd.dup ->
                                               /\ outcomeLog' = Log(outcomeLog, <<"dup">>)
                                               /\ UNCHANGED <<pc, cur, err>>
                                          [] ~dd.dup /\ parsed = "nlp_error" ->
                                               /\ pc' = "failed" /\ err' = "parse"
                                               /\ outcomeLog' =
                                                    Log(outcomeLog, <<"parse_error">>)
                                               /\ cur' = cur
                                          [] OTHER ->
                                               /\ pc' = "yielded" /\ cur' = url
                                               /\ outcomeLog' = Log(outcomeLog, <<"page">>)
                                               /\ err' = err
  /\ Finally
  /\ UNCHANGED <<site, base_url, page_limit, is_dynamic, metrics, runs,
                 crawled_data, pages_processed, enqLog, streamVars, fetchVars,
                 max_hashes, lastCall, hashVars, mainVars, newsVars,
                 twoVars>>

\* the consumer's loop body on the yielded record: buffer it and, at the
\* threshold, upload the buffer as the next part.  A ClientError from
\* upload_part reaches the ClientError handler and is raised again.
Consume ==
  /\ pc = "yielded"
  /\ LET buf == BufferAppend(buffer, cur)
         size == buffer_size + RecordSize(cur)
     IN  IF AtThreshold(size)
         THEN \E uploaded \in BOOLEAN :
                IF uploaded
                THEN /\ parts' = Append(parts, [PartNumber |-> part_number,
                                                body |-> buf])
                     /\ part_number' = NextPartNumber(part_number)
                     /\ buffer' = <<>> /\ buffer_size' = 0
                     /\ objects' = AfterUploadPart(objects, TextKey(runs), parts')
                     /\ pc' = "resume"
                     /\ UNCHANGED <<upload, err>>
                ELSE /\ buffer' = buf /\ buffer_size' = size
                     /\ pc' = "failed" /\ err' = "upload_part"
                     /\ upload' = OnClientError(upload)
                     /\ UNCHANGED <<parts, part_number, objects>>
         ELSE /\ buffer' = buf /\ buffer_size' = size
              /\ pc' = "resume"
              /\ UNCHANGED <<parts, part_number, upload, objects, err>>
  /\ Finally
  /\ UNCHANGED <<crawlerVars, runs, to_visit, crawled_data, pages_processed, cur,
                 logVars, completeArg, fetchVars, dedupVars, hashVars, mainVars, newsVars,
                 twoVars>>

\* the iteration after its yield: the Page Record and the discovered links
Resume ==
  /\ pc = "resume"
  /\ crawled_data' = PageAppend(crawled_data, cur)
  /\ pages_processed' = pages_processed + 1
  /\ LET links == extract_links(PageOf(cur).hrefs, cur, base_url)
         tv == Enqueue(to_visit, links, visited_urls)
     IN  /\ to_visit' = tv
         /\ enqLog' = Log(enqLog, SubSeq(tv, Len(to_visit) + 1, Len(tv)))
  /\ pc' = "loop"
  /\ Finally
  /\ UNCHANGED <<crawlerVars, runs, cur, err, popLog, fetchLog, failedLog,
                 outcomeLog, streamVars, fetchVars, dedupVars, hashVars, mainVars, newsVars,
                 twoVars>>

\* the generator is exhausted: the final part and complete_multipart_upload
FinishStream ==
  /\ pc = "loop"
  /\ ~LoopCond(to_visit, visited_urls, page_limit)
  /\ \E uploaded \in BOOLEAN, completed \in BOOLEAN :
       LET final == HasFinalPart(buffer)
           ps == IF final /\ uploaded
                 THEN Append(parts, [PartNumber |-> part_number, body |-> buffer])
                 ELSE parts
       IN  /\ parts' = ps
           /\ completeArg' = IF final /\ ~uploaded THEN completeArg ELSE ps
           /\ IF (final /\ ~uploaded) \/ ~completed
              THEN /\ pc' = "failed"
                   /\ err' = IF final /\ ~uploaded THEN "upload_part" ELSE "complete"
                   /\ upload' = OnClientError(upload)
                   /\ objects' = IF final /\ uploaded
                                 THEN AfterUploadPart(objects, TextKey(runs), ps)
                                 ELSE objects
              ELSE /\ pc' = "post"
                   /\ upload' = "committed"
                   /\ objects' = Put(objects, TextKey(runs), Decompressed(ps))
                   /\ err' = err
  /\ Finally
  /\ UNCHANGED <<crawlerVars, runs, to_visit, crawled_data, pages_processed, cur,
                 logVars, buffer, buffer_size, part_number, fetchVars, dedupVars,
                 hashVars, mainVars, newsVars,
                 twoVars>>

\* _post_crawl_processing and the return of crawl()
PostCrawl ==
  /\ pc = "post"
  /\ metrics' = UpdatedMetrics(metrics, visited_urls)
  /\ \E summaryStored \in BOOLEAN, sitemapStored \in BOOLEAN :
       LET summary == [total_pages |-> metrics'.total_pages,
                       successful_crawls |-> metrics'.successful_crawls,
                       failed_crawls |-> metrics'.failed_crawls]
           sitemap == [urls |-> SitemapUrls(visited_urls)]
           s1 == IF summaryStored
                 THEN Put(objects, SummaryKey(runs), summary) ELSE objects
       IN  /\ objects' = IF summaryStored /\ sitemapStored
                         THEN Put(s1, SitemapKey(runs), sitemap) ELSE s1
           /\ pc' = IF summaryStored /\ sitemapStored THEN "done" ELSE "failed"
           /\ err' = IF summaryStored /\ sitemapStored THEN err ELSE "post"
  /\ Finally
  /\ UNCHANGED <<site, base_url, page_limit, is_dynamic, visited_urls,
                 runs, to_visit, crawled_data, pages_processed, cur, logVars,
                 buffer, buffer_size, part_number, parts, upload, completeArg,
                 fetchVars, dedupVars, hashVars, mainVars, newsVars,
                 twoVars>>

CrawlStep == LoopIter \/ Consume \/ Resume \/ FinishStream \/ PostCrawl

Next == StartCrawl \/ LoopIter \/ Consume \/ Resume \/ FinishStream \/ PostCrawl

Spec == Init /\ [][Next]_vars

\* crawl() runs on one thread and is not cancelled: a step that is enabled
\* is taken
SpecLive == Spec /\ WF_vars(CrawlStep)

(***************************************************************************)
(* SpecMetrics: _post_crawl_processing called on a crawler whose visited   *)
(* set and failed_crawls counter were set by the caller, as the metrics    *)
(* tests do.                                                               *)
(***************************************************************************)
MaxFailed == 2

InitMetrics ==
  /\ site \in {LinearSite}
  /\ base_url = Root
  /\ page_limit = MaxPageLimit
  /\ is_dynamic = FALSE
  /\ visited_urls \in SUBSET {Root, PA, PB, PC}
  /\ \E f \in 0..MaxFailed : metrics = [NoMetrics EXCEPT !.failed_crawls = f]
  /\ pc = "post" /\ runs = 1 /\ to_visit = <<>> /\ crawled_data = <<>>
  /\ pages_processed = 0 /\ cur = <<>> /\ err = "none" /\ saved = FALSE
  /\ LogOff /\ StreamOff /\ FetchOff /\ DedupOff /\ HashOff
  /\ MainOff /\ NewsOff /\ TwoOff

NextMetrics == PostCrawl
SpecMetrics == InitMetrics /\ [][NextMetrics]_vars

(***************************************************************************)
(* SpecNews: one call of NewsApiClient.fetch_logistics_news.  An article   *)
(* is its "url" entry and an id that tells apart articles with the same    *)
(* URL; the id grows in the order NewsAPI and the three feeds list them.   *)
(***************************************************************************)
MaxArticles == 3
NUM_FEEDS == 3

NoUrl == "<absent>"
UrlValues == {NoUrl, "", "u1", "u2"}
\* what stands for the result of fetch_rss_feed that carries an "error" key
FeedError == <<[url |-> "error", id |-> 0]>>

\* article.get("url", "")
ArticleUrl(article) == IF article.url = NoUrl THEN "" ELSE article.url

\* the articles flat[from + 1 .. to], with their ids
Segment(flat, from, to) ==
  [i \in 1..(to - from) |-> [url |-> flat[from + i], id |-> from + i]]

InitNews ==
  /\ CrawlerOff /\ RunOff /\ LogOff /\ StreamOff /\ FetchOff /\ DedupOff
  /\ HashOff /\ MainOff /\ TwoOff
  /\ \E flat \in SeqsUpTo(UrlValues, MaxArticles), api_key \in BOOLEAN,
        failed \in SUBSET (1..NUM_FEEDS) :
       \E c \in [0..NUM_FEEDS -> 0..Len(flat)] :
         /\ \A k \in 1..NUM_FEEDS : c[k - 1] <= c[k]
         /\ c[NUM_FEEDS] = Len(flat)
         /\ ~api_key => c[0] = 0
         /\ \A k \in failed : c[k - 1] = c[k]
         /\ newsIn =
              [api_key |-> api_key,
               newsapi |-> Segment(flat, 0, c[0]),
               feeds |-> [k \in 1..NUM_FEEDS |->
                            IF k \in failed THEN FeedError
                            ELSE Segment(flat, c[k - 1], c[k])]]
  /\ newsOut = NoNews

\* all_news["articles"] after NewsAPI and the feeds from feed k on
RECURSIVE CollectFeeds(_, _, _)
CollectFeeds(articles, feeds, k) ==
  IF k > NUM_FEEDS THEN articles
  ELSE CollectFeeds(IF feeds[k] = FeedError THEN articles
                    ELSE articles \o feeds[k],
                    feeds, k + 1)

\* a test that lets articles without URL through
IsNewUrl_AllowEmpty(url, unique) ==
  \A i \in DOMAIN unique : ArticleUrl(unique[i]) # url

\* if url and url not in unique_articles
IsNewUrl(url, unique) ==
  url # "" /\ \A i \in DOMAIN unique : ArticleUrl(unique[i]) # url

\* the values of unique_articles, in insertion order, after the loop over
\* articles
RECURSIVE Deduplicate(_, _)
Deduplicate(articles, unique) ==
  IF articles = <<>> THEN unique
  ELSE Deduplicate(Tail(articles),
                   IF IsNewUrl(ArticleUrl(Head(articles)), unique)
                   THEN Append(unique, Head(articles)) ELSE unique)

fetch_logistics_news(in) ==
  LET first == IF in.api_key THEN in.newsapi ELSE <<>>
      all   == CollectFeeds(first, in.feeds, 1)
      kept  == Deduplicate(all, <<>>)
  IN  [articles |-> kept, total_articles |-> Len(kept)]

FetchLogisticsNews ==
  /\ pc = "off"
  /\ newsIn # <<>>
  /\ newsOut = NoNews
  /\ newsOut' = fetch_logistics_news(newsIn)
  /\ UNCHANGED <<crawlerVars, runVars, logVars, streamVars, fetchVars,
                 dedupVars, hashVars, mainVars, newsIn, twoVars>>

NextNews == FetchLogisticsNews
SpecNews == InitNews /\ [][NextNews]_vars

(***************************************************************************)
(* SpecTwo: two crawler objects built from the same website configuration, *)
(* each running its crawl loop, with the steps of the two loops            *)
(* interleaved in any order.  The visited set and the ledger of a crawler  *)
(* are set objects on the heap that its fields refer to; to_visit is a     *)
(* local of its crawl() call.                                              *)
(***************************************************************************)
TwoPageLimit == 2
Crawlers == {1, 2}

\* self.visited_urls = set() in StaticCrawler.__init__ of crawler i: the
\* new set object
VisitedRef(i) == i

\* a ledger that is one set object for all text processors
LedgerRef_Shared(i) == Cardinality(Crawlers) + 1

\* self.content_hashes = set() in TextProcessor.__init__ of crawler i's text
\* processor: the new set object
LedgerRef(i) == Cardinality(Crawlers) + i

InitTwo ==
  /\ site \in Sites
  /\ base_url = Root
  /\ page_limit = TwoPageLimit
  /\ is_dynamic = FALSE
  /\ visited_urls = {} /\ metrics = NoMetrics
  /\ RunOff /\ LogOff /\ StreamOff /\ FetchOff /\ HashOff /\ MainOff /\ NewsOff
  /\ content_hashes = {} /\ max_hashes \in 1..MaxHashes /\ lastCall = NoDedupCall
  /\ crs = [i \in Crawlers |->
             [visited |-> VisitedRef(i), ledger |-> LedgerRef(i),
              pc |-> "idle", to_visit |-> <<>>, cur |-> <<>>]]
  /\ heap = [r \in {VisitedRef(i) : i \in Crawlers}
                    \cup {LedgerRef(i) : i \in Crawlers} |-> {}]
  /\ who = 0

TwoFrame ==
  UNCHANGED <<crawlerVars, runVars, logVars, streamVars, fetchVars, dedupVars,
              hashVars, mainVars, newsVars>>

\* crawl() of crawler i up to the first pull from its generator
TwoStart(i) ==
  /\ crs # <<>>
  /\ crs[i].pc = "idle"
  /\ \E created \in BOOLEAN :
       crs' = [crs EXCEPT ![i].to_visit = <<base_url>>,
                          ![i].pc = IF created THEN "loop" ELSE "failed"]
  /\ who' = i
  /\ heap' = heap
  /\ TwoFrame

\* one iteration of crawler i's while loop, from the pop to continue, raise
\* or yield
TwoIter(i) ==
  /\ crs # <<>>
  /\ crs[i].pc = "loop"
  /\ LoopCond(crs[i].to_visit, heap[crs[i].visited], page_limit)
  /\ LET url  == Pop(crs[i].to_visit).url
         rest == Pop(crs[i].to_visit).rest
     IN  IF AlreadyVisited(url, heap[crs[i].visited])
         THEN /\ crs' = [crs EXCEPT ![i].to_visit = rest]
              /\ heap' = heap
         ELSE \E outs \in [1..max_retries -> Outcome] :
                LET r == get_page(is_dynamic, url, outs, max_retries, delay)
                IN  CASE r.result = "raise" ->
                           /\ crs' = [crs EXCEPT ![i].to_visit = rest,
                                                  ![i].pc = "failed"]
                           /\ heap' = heap
                      [] r.result = "none" ->
                           /\ crs' = [crs EXCEPT ![i].to_visit = rest,
                                                  ![i].pc = AfterFailedFetch]
                           /\ heap' = heap
                      [] OTHER ->
                           \E parsed \in ParseOutcome :
                             LET h1 == [heap EXCEPT ![crs[i].visited] = @ \cup {url}]
                             IN  IF parsed = "extract_error"
                                 THEN /\ crs' = [crs EXCEPT ![i].to_visit = rest,
                                                            ![i].pc = "failed"]
                                      /\ heap' = h1
                                 ELSE \E dd \in is_duplicate(PageOf(url).text,
                                                   h1[crs[i].ledger], max_hashes) :
                                        /\ heap' = [h1 EXCEPT ![crs[i].ledger] = dd.hashes]
                                        /\ crs' =
                                             [crs EXCEPT
                                                ![i].to_visit = rest,
                                                ![i].cur = IF dd.dup THEN @ ELSE url,
                                                ![i].pc =
                                                  IF dd.dup THEN "loop"
                                                  ELSE IF parsed = "nlp_error"
                                                       THEN "failed"
                                                       ELSE "yielded"]
  /\ who' = i
  /\ TwoFrame

\* the consumer's loop body on the record crawler i yielded: a failed upload
\* raises, otherwise the generator is resumed
TwoConsume(i) ==
  /\ crs # <<>>
  /\ crs[i].pc = "yielded"
  /\ \E uploaded \in BOOLEAN :
       crs' = [crs EXCEPT ![i].pc = IF uploaded THEN "resume" ELSE "failed"]
  /\ who' = i
  /\ heap' = heap
  /\ TwoFrame

\* crawler i's iteration after its yield: the discovered links
TwoResume(i) ==
  /\ crs # <<>>
  /\ crs[i].pc = "resume"
  /\ LET links == extract_links(PageOf(crs[i].cur).hrefs, crs[i].cur, base_url)
     IN  crs' = [crs EXCEPT
                   ![i].to_visit = Enqueue(@, links, heap[crs[i].visited]),
                   ![i].pc = "loop"]
  /\ who' = i
  /\ heap' = heap
  /\ TwoFrame

\* crawler i's generator is exhausted and its crawl() returns
TwoFinish(i) ==
  /\ crs # <<>>
  /\ crs[i].pc = "loop"
  /\ ~LoopCond(crs[i].to_visit, heap[crs[i].visited], page_limit)
  /\ \E stored \in BOOLEAN :
       crs' = [crs EXCEPT ![i].pc = IF stored THEN "done" ELSE "failed"]
  /\ who' = i
  /\ heap' = heap
  /\ TwoFrame

TwoStartAny   == \E i \in Crawlers : TwoStart(i)
TwoIterAny    == \E i \in Crawlers : TwoIter(i)
TwoConsumeAny == \E i \in Crawlers : TwoConsume(i)
TwoResumeAny  == \E i \in Crawlers : TwoResume(i)
TwoFinishAny  == \E i \in Crawlers : TwoFinish(i)

NextTwo ==
  TwoStartAny \/ TwoIterAny \/ TwoConsumeAny \/ TwoResumeAny \/ TwoFinishAny
SpecTwo == InitTwo /\ [][NextTwo]_vars

(***************************************************************************)
(* Claims about the crawl loop (Spec, SpecLive).                           *)
(***************************************************************************)
IsPrefix(p, q) == Len(p) <= Len(q) /\ SubSeq(q, 1, Len(p)) = p
Count(log, u)  == Cardinality({i \in DOMAIN log : log[i] = u})

\* the logs never fill up: what they hold is the whole history of the run
LogsComplete ==
  Len(popLog) < MaxLog /\ Len(enqLog) < MaxLog /\ Len(fetchLog) < MaxLog

\* C1: in every reachable state of crawl with page limit L the visited set
\* holds at most L URLs, whatever the site and whichever fetches fail.
C1_VisitedWithinLimit == Cardinality(visited_urls) <= page_limit

C1_Witness ==
  /\ page_limit = 2
  /\ Cardinality(visited_urls) = page_limit
  /\ failedLog # <<>>
  /\ to_visit # <<>>
  /\ pc = "loop"

C3_FailedMarkedVisited ==
  \A u \in Range(failedLog) : u \in visited_urls /\ Count(enqLog, u) <= 1

\* C4: the crawl loop terminates: a run that is in its loop reaches a state
\* where it has left the loop, with to_visit empty or the limit reached
\* (or the run failed).
C4_LoopTerminates ==
  (pc \in {"loop", "yielded", "resume"})
    ~> (\/ pc = "failed"
        \/ /\ pc = "post"
           /\ (to_visit = <<>> \/ Cardinality(visited_urls) >= page_limit))

C4_Witness ==
  /\ pc = "post"
  /\ to_visit # <<>>
  /\ failedLog # <<>>
  /\ Cardinality(visited_urls) = page_limit

\* C5: once the visited set has reached the page limit no fetch is made; on
\* the linear site with limit 2 a first run of a crawler never fetches b or
\* c, and when all its fetches succeed it ends with visited = {ex.com,
\* ex.com/a}.
C5_LimitStopsFetching ==
  /\ []((site = LinearSite /\ page_limit = 2 /\ runs = 1) =>
          /\ PB \notin Range(fetchLog)
          /\ PC \notin Range(fetchLog)
          /\ (pc \in {"post", "done"} /\ failedLog = <<>>)
               => visited_urls = {Root, PA})
  /\ [][Cardinality(visited_urls) >= page_limit
          => Len(fetchLog') <= Len(fetchLog)]_vars

C5_Witness ==
  /\ site = LinearSite /\ page_limit = 2 /\ runs = 1
  /\ pc = "done"
  /\ fetchLog = <<Root, PA>>
  /\ failedLog = <<>>
  /\ visited_urls = {Root, PA}
  /\ to_visit = <<PB>>

\* C6: every URL appended to to_visit starts with base_url; a link without
\* that prefix is never enqueued and never fetched.
C6_Containment ==
  /\ \A i \in DOMAIN enqLog : StartsWith(enqLog[i], base_url)
  /\ \A i \in DOMAIN fetchLog : StartsWith(fetchLog[i], base_url)
  /\ Ext \notin Range(to_visit)

C6_Witness ==
  /\ site = WebSite
  /\ Root \in Range(crawled_data)
  /\ PC \in Range(crawled_data)
  /\ Len(enqLog) >= 4

\* C7: URLs leave to_visit in the order they entered it: the URLs popped so
\* far are the first URLs enqueued, in that order, and the fetches follow
\* the pops (a popped URL is fetched at once, unless it is already visited).
C7_Fifo ==
  /\ IsPrefix(popLog, enqLog)
  /\ (fetchLog = popLog \/ (fetchLog = <<>> /\ popLog = <<base_url>>))

C7_Witness ==
  /\ site = MeshSite
  /\ Len(popLog) >= 3
  /\ Len(to_visit) >= 1
  /\ fetchLog = popLog

(***************************************************************************)
(* Claims about get_page (SpecFetch).                                      *)
(***************************************************************************)
NumAttempts(r) == Cardinality({i \in DOMAIN r.trace : r.trace[i].e = "attempt"})
Backoffs(r)    == SelectSeq(r.trace, LAMBDA ev : ev.why = "backoff")

AllReqErr  == \A k \in 1..max_retries : outcomes[k] = "reqerr"
FirstOk(k) == outcomes[k] = "ok" /\ \A j \in 1..(k - 1) : outcomes[j] = "reqerr"

\* C8: BaseCrawler.get_page attempts until the first success or until
\* max_retries attempts were made: when every attempt fails with a request
\* error it makes exactly max_retries attempts and returns None without
\* raising; when attempt k is the first to succeed it returns the body of
\* attempt k and makes no attempt after k.
C8_RetryCeiling ==
  gp[FALSE] # NoCall =>
    LET r == gp[FALSE]
    IN  /\ AllReqErr => (NumAttempts(r) = max_retries /\ r.result = "none")
        /\ \A k \in 1..max_retries :
             FirstOk(k) => (r.result = "body" /\ r.body = k /\ NumAttempts(r) = k)

C8_Witness ==
  /\ gp[FALSE] # NoCall
  /\ max_retries = 3
  /\ AllReqErr
  /\ NumAttempts(gp[FALSE]) = 3
  /\ gp[FALSE].result = "none"

\* C9: on the same attempt outcomes (request errors and successes) the
\* rendered strategy makes as many attempts as the direct strategy and sleeps
\* the same backoff before each retry.
C9_SameEnvelope ==
  (/\ gp[FALSE] # NoCall
   /\ gp[TRUE] # NoCall
   /\ \A k \in 1..max_retries : outcomes[k] \in {"ok", "reqerr"})
  => /\ NumAttempts(gp[TRUE]) = NumAttempts(gp[FALSE])
     /\ Backoffs(gp[TRUE]) = Backoffs(gp[FALSE])

(***************************************************************************)
(* Claims about is_duplicate (SpecDedup).                                  *)
(***************************************************************************)
\* C10: a call of is_duplicate with a text whose fingerprint is not in the
\* ledger returns False, and the next call, with the same text, returns True,
\* whatever the ledger holds (a full ledger included).
C10_DedupIdempotence ==
  lastCall.made =>
    /\ lastCall.fresh => ~lastCall.result
    /\ lastCall.again => lastCall.result

(***************************************************************************)
(* Claims about the dedup ledger and the fingerprint (SpecDedup, SpecHash).*)
(***************************************************************************)
\* C11: after any sequence of is_duplicate calls the ledger holds at most
\* max_hashes fingerprints.
C11_LedgerWithinCapacity == Cardinality(content_hashes) <= max_hashes

\* lower-casing the whole text and collapsing its whitespace runs
Normalized(text) == Join(Split(Lower(text)))

\* C12: two texts that are equal after lower-casing and collapsing whitespace
\* runs get equal fingerprints, texts longer than one chunk included.
C12_HashOfNormalized ==
  (hashRes # NoHash /\ Normalized(hashArgs[1]) = Normalized(hashArgs[2]))
    => hashRes[1] = hashRes[2]

(***************************************************************************)
(* Claims about records, failures and the persistence channel (Spec).      *)
(***************************************************************************)
\* the iteration fetched the URL at the head of the queue and parsed the page
\* without an exception
FetchedAndParsed ==
  /\ pc = "loop" /\ visited_urls' # visited_urls
  /\ err' # "parse"

\* the iteration dropped the page: no record is yielded for it, the run goes
\* on, nothing is counted as failed, no link is enqueued, the URL is visited
Dropped ==
  /\ pc' = "loop" /\ cur' = cur
  /\ buffer' = buffer /\ parts' = parts /\ crawled_data' = crawled_data
  /\ metrics' = metrics /\ failedLog' = failedLog
  /\ to_visit' = Tail(to_visit)
  /\ Head(to_visit) \in visited_urls'

\* C13: a fetched page whose fingerprint is already in the ledger is dropped:
\* no Text-Analysis Record, no Page Record, no failure counted, no link
\* enqueued, and its URL is added to visited.
C13_DuplicateDropped ==
  [][(FetchedAndParsed
        /\ calculate_content_hash(PageOf(Head(to_visit)).text) \in content_hashes)
       => Dropped]_vars

\* a page that is_duplicate reports as a duplicate is dropped
ReportedDuplicateDropped ==
  [][(FetchedAndParsed /\ Len(outcomeLog') > Len(outcomeLog)
        /\ outcomeLog'[Len(outcomeLog')] = "dup")
       => Dropped]_vars

\* the Text-Analysis Records handed to the persistence channel so far
Streamed == Combined(parts) \o buffer

\* C14: the Text-Analysis Record of a URL is appended to the channel's buffer
\* strictly before its Page Record is appended to crawled_data.
C14_TextBeforePage ==
  /\ [](\A i \in DOMAIN crawled_data : crawled_data[i] \in Range(Streamed))
  /\ [][(runs' = runs /\ crawled_data' # crawled_data)
          => /\ crawled_data' = Append(crawled_data, cur)
             /\ cur \in Range(Streamed)]_vars

C14_Witness ==
  /\ Len(crawled_data) >= 2 /\ parts # <<>> /\ buffer # <<>>
  /\ crawled_data[Len(crawled_data)] \in Range(buffer)

\* C15: an exception raised by StaticCrawler.parse on one fetched page is
\* absorbed by the crawl loop: the page is skipped and the run does not fail.
C15_ParseErrorAbsorbed == ~(pc = "failed" /\ err = "parse")

\* C16: at the end of a crawl run, failed_crawls of the persisted summary is
\* the number of URLs whose fetch exhausted its retries during the run.
C16_FailedCrawlsCounted ==
  pc = "done" => objects[SummaryKey(runs)].failed_crawls = Len(failedLog)

\* the URLs of the fetches that gave a page, in the order of the fetches
RECURSIVE PagesOf(_, _)
PagesOf(urls, outs) ==
  IF urls = <<>> \/ outs = <<>> THEN <<>>
  ELSE (IF Head(outs) = "page" THEN <<Head(urls)>> ELSE <<>>)
         \o PagesOf(Tail(urls), Tail(outs))

C18_AbortOnStorageError ==
  (pc = "failed" /\ err \in {"upload_part", "complete"}) => upload = "aborted"

\* C19: a reader of the target key sees no object or the fully combined one,
\* never a partial one; after a failed upload_part no object is at the key.
C19_NoPartialObject ==
  /\ TextKey(runs) \in DOMAIN objects
       => /\ upload = "committed"
          /\ objects[TextKey(runs)] = Decompressed(parts)
          /\ Combined(parts) = crawled_data
  /\ (pc = "failed" /\ err = "upload_part") => TextKey(runs) \notin DOMAIN objects

C19_Witness ==
  /\ pc = "failed" /\ err = "upload_part" /\ parts # <<>>
  /\ TextKey(runs) \notin DOMAIN objects

\* C20: every multipart session opened by stream_processed_text_data ends
\* committed or aborted, also when the record generator raises: once the run
\* is over no session is left open.
C20_SessionEnds ==
  pc \in {"done", "failed"} => upload \in {"none", "committed", "aborted"}

(***************************************************************************)
(* Claims about the text stream, the end of crawl() and repeated runs      *)
(* (Spec).                                                                 *)
(***************************************************************************)
\* the records the generator yielded in this run, in yield order
Yielded == PagesOf(fetchLog, outcomeLog)

\* the for loop of stream_processed_text_data has ended
StreamEnded ==
  \/ pc \in {"post", "done"}
  \/ pc = "failed" /\ err \in {"complete", "post"}

\* C21: when the record stream yields no record, stream_processed_text_data
\* returns without error, issues no complete_multipart_upload, creates no
\* object and leaves no multipart session open.
C21_EmptyStreamNoOp ==
  (StreamEnded /\ Yielded = <<>>)
    => /\ err # "complete"
       /\ completeArg = NoArg
       /\ upload \in {"none", "aborted"}
       /\ TextKey(runs) \notin DOMAIN objects

\* C22: when complete_multipart_upload is issued, every yielded record is in
\* exactly one uploaded part, the parts in part-number order give the records
\* in yield order, and no record remains in the buffer.
C22_AllRecordsInParts ==
  completeArg # NoArg
    => (Combined(completeArg) = Yielded /\ buffer = <<>>)

\* C22, amended: when complete_multipart_upload is issued, every yielded
\* record is in exactly one uploaded part and the parts in part-number order
\* give the records in yield order; the buffer is not cleared after the
\* final part: what it still holds is the body of the last part.
C22_AllRecordsInPartsAmended ==
  completeArg # NoArg
    => /\ Combined(completeArg) = Yielded
       /\ \A i, j \in DOMAIN Yielded : Yielded[i] = Yielded[j] => i = j
       /\ buffer # <<>> => buffer = completeArg[Len(completeArg)].body

C22_Witness ==
  completeArg # NoArg /\ Len(completeArg) >= 2 /\ buffer # <<>>

\* C24: what stream_processed_text_data commits in two or more parts is, once
\* decompressed, the content of one whole-object write of the same records:
\* one JSON array of the N records.
C24_StreamingEquivalence ==
  (upload = "committed" /\ Len(parts) >= 2)
    => objects[TextKey(runs)] = JsonDumps(Combined(parts))

StreamError == pc = "failed" /\ err \in {"create", "upload_part", "complete"}

\* C25: if the text persistence channel raises during streaming, crawl()
\* raises the error to its caller with the logger metrics saved, stores no
\* summary and no sitemap, and does not resume or retry the crawl.
C25_StreamErrorPropagates ==
  /\ [](StreamError => /\ saved
                       /\ SummaryKey(runs) \notin DOMAIN objects
                       /\ SitemapKey(runs) \notin DOMAIN objects)
  /\ [][StreamError => runs' = runs + 1]_vars

C25_Witness ==
  StreamError /\ err = "upload_part" /\ saved /\ crawled_data # <<>>

\* C26: when the loop has ended and the text stream is committed, crawl()
\* returns only with the summary and then the sitemap stored, and the URLs of
\* the sitemap are the final visited set.
C26_PostCrawlStores ==
  /\ pc = "done"
       => /\ upload = "committed"
          /\ SummaryKey(runs) \in DOMAIN objects
          /\ SitemapKey(runs) \in DOMAIN objects
          /\ objects[SitemapKey(runs)].urls = visited_urls
  /\ SitemapKey(runs) \in DOMAIN objects => SummaryKey(runs) \in DOMAIN objects

C26_Witness ==
  /\ pc = "done" /\ Cardinality(visited_urls) = MaxPageLimit
  /\ objects[SitemapKey(runs)].urls = visited_urls

\* C30: each call of crawl() starts with an empty visited set, so a second
\* crawl() on the same object traverses the site again from the base URL.
C30_FreshVisitedPerRun ==
  [][runs' = runs + 1 => visited_urls' = {}]_vars

(***************************************************************************)
(* SpecMain: main.crawl_websites.  For each requested name it creates a    *)
(* crawler, lets stream_raw_data pull crawler.crawl() (the crawl actions   *)
(* above, on the new crawler) and uploads the returned pages as the raw    *)
(* object.  runs counts the crawl() calls of the whole call here, so that  *)
(* the keys of different sites differ as their names do.                   *)
(***************************************************************************)
MaxNames == 2          \* website_names has at most this many entries

RAW_SMALL_LIMIT == 2   \* 5 MB limit of the single put_object, in page records
RAW_CHUNK_SIZE  == 2   \* 5 MB chunk_size of the raw multipart path, in page records

\* config.WEBSITES
WEBSITES ==
  << [name |-> "w1", site |-> LinearSite, dynamic |-> FALSE,
      page_limit |-> MaxPageLimit],
     [name |-> "w2", site |-> WebSite, dynamic |-> TRUE, page_limit |-> 2] >>

AllNames == [i \in DOMAIN WEBSITES |-> WEBSITES[i].name]
Names == Range(AllNames) \cup {"nope"}

RawKey(i) == [kind |-> "raw", run |-> i]
NoKey == [kind |-> "none", run |-> 0]

\* only the two keys are tested
CredsOk_KeysOnly(c) == c.key /\ c.secret

\* all([aws_access_key_id, aws_secret_access_key, bucket_name])
CredsOk(c) == c.key /\ c.secret /\ c.bucket

\* an error of one site that leaves crawl_websites
AfterSiteError_Raise == "raised"

\* except Exception: record the failure; the for loop goes on
AfterSiteError == "next"

\* results["websites"][name] = {"success": False, ...}; failed_crawls += 1
RecordFailure(res, name) ==
  [res EXCEPT !.websites = (name :> [success |-> FALSE, s3_key |-> NoKey]) @@ @,
              !.failed_crawls = @ + 1]

\* results["websites"][name] = {"success": True, "s3_key": key};
\* successful_crawls += 1
RecordSuccess(res, name, key) ==
  [res EXCEPT !.websites = (name :> [success |-> TRUE, s3_key |-> key]) @@ @,
              !.successful_crawls = @ + 1]

InitMain ==
  /\ CrawlerOff /\ RunOff /\ LogOff /\ StreamOff /\ FetchOff /\ HashOff
  /\ NewsOff /\ TwoOff
  /\ content_hashes = {} /\ max_hashes \in 1..MaxHashes /\ lastCall = NoDedupCall
  /\ creds \in [key : BOOLEAN, secret : BOOLEAN, bucket : BOOLEAN]
  /\ website_names \in SeqsUpTo(Names, MaxNames)
  /\ mpc = "start" /\ idx = 0 /\ results = NoResults /\ crawlers = 0
  /\ raw = NoRaw

\* crawl_websites up to its for loop: the default of website_names and
\* S3Storage(), which raises on a missing credential or bucket name, or when
\* the client cannot be created or the bucket cannot be verified
MainStart ==
  /\ mpc = "start"
  /\ website_names' = IF website_names = <<>> THEN AllNames ELSE website_names
  /\ IF ~CredsOk(creds)
     THEN mpc' = "raised" /\ idx' = idx
     ELSE \E connected \in BOOLEAN :
            IF connected THEN mpc' = "next" /\ idx' = 1
                         ELSE mpc' = "raised" /\ idx' = idx
  /\ UNCHANGED <<crawlerVars, runVars, logVars, streamVars, fetchVars, dedupVars,
                 hashVars, creds, results, crawlers, raw, newsVars,
                 twoVars>>

\* the failure of the site being handled, and the step to the next name
SiteFailed ==
  /\ results' = RecordFailure(results, website_names[idx])
  /\ mpc' = AfterSiteError
  /\ idx' = idx + 1

SiteSucceeded(key) ==
  /\ results' = RecordSuccess(results, website_names[idx], key)
  /\ mpc' = "next"
  /\ idx' = idx + 1

\* one iteration of the for loop up to the crawler: the lookup of the
\* configuration and factory.create_crawler
MainSite ==
  /\ mpc = "next" /\ idx <= Len(website_names)
  /\ LET found == {i \in DOMAIN WEBSITES : WEBSITES[i].name = website_names[idx]}
     IN  IF found = {}
         THEN /\ SiteFailed
              /\ UNCHANGED <<crawlerVars, pc, content_hashes, crawlers>>
         ELSE \E ok \in BOOLEAN :
                IF ok
                THEN LET cfg == WEBSITES[CHOOSE i \in found : \A j \in found : i <= j]
                     IN  /\ site' = cfg.site /\ base_url' = Root
                         /\ page_limit' = cfg.page_limit
                         /\ is_dynamic' = cfg.dynamic
                         /\ visited_urls' = {} /\ metrics' = NoMetrics
                         /\ content_hashes' = {}
                         /\ pc' = "idle"
                         /\ crawlers' = crawlers + 1
                         /\ mpc' = "crawl"
                         /\ UNCHANGED <<results, idx>>
                ELSE /\ SiteFailed
                     /\ UNCHANGED <<crawlerVars, pc, content_hashes, crawlers>>
  /\ UNCHANGED <<runs, to_visit, crawled_data, pages_processed, cur, err, saved,
                 logVars, streamVars, fetchVars, max_hashes, lastCall, hashVars,
                 creds, website_names, raw, newsVars,
                 twoVars>>

\* crawler.crawl() raised: the error passes data_generator and
\* stream_raw_data and reaches the except clause of the for loop
MainCrawlRaised ==
  /\ mpc = "crawl" /\ pc = "failed"
  /\ SiteFailed
  /\ UNCHANGED <<crawlerVars, runVars, logVars, streamVars, fetchVars, dedupVars,
                 hashVars, creds, website_names, crawlers, raw, newsVars,
                 twoVars>>

\* crawler.crawl() returned its pages: stream_raw_data collects them and
\* returns the key without a write (none), writes them with put_object
\* (few), or opens a multipart session
MainRawCollect ==
  /\ mpc = "crawl" /\ pc = "done"
  /\ LET all_data == crawled_data
         key == RawKey(idx)
     IN  IF Len(all_data) = 0
         THEN SiteSucceeded(key) /\ UNCHANGED <<objects, raw>>
         ELSE IF Len(all_data) < RAW_SMALL_LIMIT
         THEN \E stored \in BOOLEAN :
                IF stored
                THEN /\ objects' = Put(objects, key, JsonDumps(all_data))
                     /\ SiteSucceeded(key) /\ raw' = raw
                ELSE SiteFailed /\ UNCHANGED <<objects, raw>>
         ELSE \E created \in BOOLEAN :
                IF created
                THEN /\ raw' = [all_data |-> all_data, parts |-> <<>>,
                                part_number |-> 1, upload |-> "open",
                                completeArg |-> NoArg, offset |-> 0]
                     /\ mpc' = "raw"
                     /\ UNCHANGED <<objects, results, idx>>
                ELSE SiteFailed /\ UNCHANGED <<objects, raw>>
  /\ UNCHANGED <<crawlerVars, runVars, logVars, buffer, buffer_size, part_number,
                 parts, upload, completeArg, fetchVars, dedupVars, hashVars,
                 creds, website_names, crawlers, newsVars,
                 twoVars>>

\* one iteration of the part loop of stream_raw_data
RawUploadPart ==
  /\ mpc = "raw" /\ raw.offset < Len(raw.all_data)
  /\ \E uploaded \in BOOLEAN :
       IF uploaded
       THEN /\ raw' = [raw EXCEPT
                         !.parts = Append(@, [PartNumber |-> raw.part_number,
                                              body |-> SubSeq(raw.all_data,
                                                        raw.offset + 1,
                                                        Min(raw.offset + RAW_CHUNK_SIZE,
                                                            Len(raw.all_data)))]),
                         !.part_number = NextPartNumber(@),
                         !.offset = @ + RAW_CHUNK_SIZE]
            /\ UNCHANGED <<mpc, idx, results>>
       ELSE /\ raw' = [raw EXCEPT !.upload = OnClientError(@)]
            /\ SiteFailed
  /\ UNCHANGED <<crawlerVars, runVars, logVars, streamVars, fetchVars, dedupVars,
                 hashVars, creds, website_names, crawlers, newsVars,
                 twoVars>>

\* complete_multipart_upload of stream_raw_data: the parts are slices of one
\* compressed stream, the object is that stream
RawComplete ==
  /\ mpc = "raw" /\ raw.offset >= Len(raw.all_data)
  /\ \E completed \in BOOLEAN :
       IF completed
       THEN /\ raw' = [raw EXCEPT !.completeArg = raw.parts,
                                  !.upload = "committed"]
            /\ objects' = Put(objects, RawKey(idx), JsonDumps(Combined(raw.parts)))
            /\ SiteSucceeded(RawKey(idx))
       ELSE /\ raw' = [raw EXCEPT !.completeArg = raw.parts,
                                  !.upload = OnClientError(@)]
            /\ objects' = objects
            /\ SiteFailed
  /\ UNCHANGED <<crawlerVars, runVars, logVars, buffer, buffer_size, part_number,
                 parts, upload, completeArg, fetchVars, dedupVars, hashVars,
                 creds, website_names, crawlers, newsVars,
                 twoVars>>

\* the for loop is over: results is returned
MainReturn ==
  /\ mpc = "next" /\ idx > Len(website_names)
  /\ mpc' = "returned"
  /\ UNCHANGED <<crawlerVars, runVars, logVars, streamVars, fetchVars, dedupVars,
                 hashVars, creds, website_names, idx, results, crawlers, raw, newsVars,
                 twoVars>>

NextMain ==
  \/ MainStart \/ MainSite \/ MainCrawlRaised \/ MainRawCollect
  \/ RawUploadPart \/ RawComplete \/ MainReturn
  \/ StartCrawl \/ LoopIter \/ Consume \/ Resume \/ FinishStream \/ PostCrawl

SpecMain == InitMain /\ [][NextMain]_vars

(***************************************************************************)
(* Claims about crawl_websites and the multipart sessions (SpecMain).      *)
(***************************************************************************)
WellNumbered(ps) == \A i \in DOMAIN ps : ps[i].PartNumber = i

\* C23: in every multipart session, of stream_processed_text_data and of
\* stream_raw_data, the uploaded parts are numbered 1, 2, ..., n in upload
\* order, and complete_multipart_upload receives exactly those parts in
\* ascending order.
C23_PartNumbers ==
  /\ WellNumbered(parts) /\ WellNumbered(raw.parts)
  /\ completeArg # NoArg => (completeArg = parts /\ WellNumbered(completeArg))
  /\ raw.completeArg # NoArg
       => (raw.completeArg = raw.parts /\ WellNumbered(raw.completeArg))

C23_Witness ==
  /\ upload = "committed" /\ Len(completeArg) >= 2
  /\ raw.upload = "committed" /\ Len(raw.completeArg) >= 2

\* C27: with the access key, the secret key or the bucket name missing,
\* S3Storage() raises and crawl_websites lets the error out before any
\* crawler is created and before any page is fetched.
C27_MissingConfigIsFatal ==
  (mpc # "off" /\ (~creds.key \/ ~creds.secret \/ ~creds.bucket))
    => /\ mpc \in {"start", "raised"}
       /\ crawlers = 0 /\ runs = 0 /\ fetchLog = <<>>
       /\ results = NoResults

C27_Witness ==
  mpc = "raised" /\ creds.key /\ creds.secret /\ ~creds.bucket

\* the entry of the name handled at index i
Entry(i) == results.websites[website_names[i]]

\* C28: an exception in one site's crawl or upload is recorded as success =
\* false for that site and the remaining sites are still crawled; when
\* crawl_websites returns, every requested name has a result entry and
\* successful_crawls + failed_crawls is the number of names requested.
C28_SiteFailureIsolated ==
  /\ [](mpc = "returned"
          => /\ \A i \in DOMAIN website_names :
                  website_names[i] \in DOMAIN results.websites
             /\ results.successful_crawls + results.failed_crawls
                  = Len(website_names))
  /\ [][(mpc \in {"next", "crawl", "raw"}
           /\ results'.failed_crawls # results.failed_crawls)
          => /\ mpc' = "next" /\ idx' = idx + 1
             /\ ~results'.websites[website_names[idx]].success]_vars
  /\ [](mpc = "raised" => idx = 0)

C28_Witness ==
  /\ mpc = "returned" /\ Len(website_names) = 2
  /\ website_names[1] # website_names[2]
  /\ ~Entry(1).success /\ Entry(2).success
  /\ Entry(2).s3_key \in DOMAIN objects

\* C29: whenever crawl_websites records success = true with an s3_key for a
\* site, a raw object was written at that key during the run, also when the
\* crawl of the site produced no page record.
C29_SuccessHasRawObject ==
  \A n \in DOMAIN results.websites :
    results.websites[n].success => results.websites[n].s3_key \in DOMAIN objects

(***************************************************************************)
(* Claims about the size of the dedup ledger (SpecDedup).                  *)
(***************************************************************************)
\* C38: after any sequence of is_duplicate calls the ledger never holds more
\* than max_hashes + 1 fingerprints.
C38_LedgerAtMostOneOver ==
  lastCall.made => Cardinality(content_hashes) <= max_hashes + 1

\* a call that found a full ledger, truncated it and added a new fingerprint
C38_Witness ==
  /\ lastCall.made /\ lastCall.fresh
  /\ Cardinality(content_hashes) = max_hashes + 1

C32_WitnessNone ==
  /\ gp[FALSE].result = "none" /\ gp[FALSE].attempts = 3 /\ delay >= 1

(***************************************************************************)
(* Claims about what get_page leaves alone (SpecFetch).                    *)
(***************************************************************************)
\* C33: a get_page call of either strategy, whatever it returns, leaves the
\* queue, the visited set and the dedup ledger as it found them.
C33_GetPageFrame ==
  [][(gp' # gp) => /\ to_visit' = to_visit
                   /\ visited_urls' = visited_urls
                   /\ content_hashes' = content_hashes]_vars

\* both strategies were called with a non-empty queue, visited set and
\* ledger, and both returned a body after a failed attempt
C33_Witness ==
  /\ gp[FALSE].result = "body" /\ gp[TRUE].result = "body"
  /\ gp[FALSE].attempts >= 2
  /\ to_visit # <<>> /\ visited_urls # {} /\ content_hashes # {}

\* the same with both calls returning None after their last attempt
C33_WitnessNone ==
  /\ gp[FALSE].result = "none" /\ gp[TRUE].result = "none"
  /\ gp[FALSE].attempts >= 2
  /\ to_visit # <<>> /\ visited_urls # {} /\ content_hashes # {}

(***************************************************************************)
(* Claims about the queue and the visited set of one crawler (Spec).       *)
(***************************************************************************)
\* C34: a discovered link is appended to to_visit only if, at the moment of
\* the append, it is in neither to_visit nor visited; and to_visit never
\* holds the same URL twice.
C34_AppendOnlyNew ==
  [][/\ pc = "resume"
        => /\ IsPrefix(to_visit, to_visit')
           /\ \A k \in (Len(to_visit) + 1)..Len(to_visit') :
                /\ to_visit'[k] \notin visited_urls
                /\ \A j \in 1..(k - 1) : to_visit'[j] # to_visit'[k]
     /\ \A i, j \in DOMAIN to_visit' : to_visit'[i] = to_visit'[j] => i = j]_vars

\* the second page of a run was handled; its links held a URL already
\* visited and a URL that now waits in the queue, which holds two URLs
C34_Witness ==
  /\ pc = "loop" /\ cur # <<>> /\ Len(crawled_data) >= 2
  /\ Len(to_visit) >= 2
  /\ LET links == extract_links(PageOf(cur).hrefs, cur, base_url)
     IN  /\ \E i \in DOMAIN links : links[i] \in visited_urls
         /\ \E i \in DOMAIN links : links[i] \in Range(to_visit)

(***************************************************************************)
(* Claims about the buffer of stream_processed_text_data (Spec).           *)
(***************************************************************************)
\* C35: while the consumer handles the records of the generator, a part is
\* uploaded exactly when buffer_size has reached the threshold; after an
\* upload the buffer is empty and buffer_size is 0; and whenever a record is
\* pulled buffer_size is below the threshold.
C35_UploadAtThreshold ==
  [][/\ pc = "yielded"
        => LET size == buffer_size + RecordSize(cur)
           IN  /\ size >= MAX_BUFFER_SIZE
                    <=> (Len(parts') = Len(parts) + 1 \/ err' = "upload_part")
               /\ Len(parts') = Len(parts) + 1
                    => /\ buffer' = <<>> /\ buffer_size' = 0
                       /\ parts'[Len(parts')].body = Append(buffer, cur)
               /\ size < MAX_BUFFER_SIZE
                    => /\ parts' = parts /\ buffer_size' = size
                       /\ buffer' = Append(buffer, cur)
     /\ pc' \in {"loop", "yielded", "resume"}
          => buffer_size' < MAX_BUFFER_SIZE]_vars

\* a record was pulled right after the upload that emptied the buffer
C35_Witness ==
  /\ pc = "yielded" /\ Len(parts) = 1 /\ Len(parts[1].body) = 2
  /\ buffer = <<>> /\ buffer_size = 0

(***************************************************************************)
(* Claims about the metrics of _post_crawl_processing (SpecMetrics).       *)
(***************************************************************************)
\* C36: _post_crawl_processing sets total_pages and successful_crawls to the
\* size of the visited set, sets end_time, and leaves failed_crawls at the
\* value it had before the call.
C36_PostCrawlMetrics ==
  [][pc = "post"
       => /\ metrics'.total_pages = Cardinality(visited_urls)
          /\ metrics'.successful_crawls = Cardinality(visited_urls)
          /\ metrics'.ended
          /\ metrics'.failed_crawls = metrics.failed_crawls]_vars

\* the call returned on a crawler with two visited URLs and one failed crawl
C36_Witness ==
  /\ pc = "done" /\ metrics.ended
  /\ Cardinality(visited_urls) = 2 /\ metrics.total_pages = 2
  /\ metrics.failed_crawls = 1

\* the positions of fetchLog whose get_page call returned a body
Fetched(flog, olog) ==
  {i \in DOMAIN flog : i \in DOMAIN olog /\ olog[i] \notin {"failed", "raise"}}

\* C37: during a run the visited set only grows, get_page is never called
\* for a URL that is in the visited set, and no URL is fetched successfully
\* twice in a run.
C37_NoRefetch ==
  [][/\ runs' = runs => visited_urls \subseteq visited_urls'
     /\ (runs' = runs /\ Len(fetchLog') = Len(fetchLog) + 1)
          => fetchLog'[Len(fetchLog')] \notin visited_urls
     /\ \A i, j \in Fetched(fetchLog', outcomeLog') :
          fetchLog'[i] = fetchLog'[j] => i = j
     /\ \A i \in Fetched(fetchLog', outcomeLog') :
          fetchLog'[i] \in visited_urls']_vars

\* a second run on the same crawler popped a URL that the first run had
\* visited and skipped it without a fetch
C37_Witness ==
  /\ runs = 2 /\ pc = "loop" /\ Len(popLog) = 1 /\ fetchLog = <<>>
  /\ popLog[1] \in visited_urls /\ Cardinality(visited_urls) >= 2

\* C39: at every point of a run crawled_data holds at most as many Page
\* Records as Text-Analysis Records were yielded and at least that number
\* minus one, for the same URLs in the same order; when crawl() returns
\* normally the two sequences list the same URLs in the same order, each
\* URL once.
C39_PagesFollowRecords ==
  /\ Len(Yielded) - Len(crawled_data) \in {0, 1}
  /\ \A i \in DOMAIN crawled_data : crawled_data[i] = Yielded[i]
  /\ pc = "done"
       => /\ Len(crawled_data) = Len(Yielded)
          /\ \A i, j \in DOMAIN crawled_data :
               crawled_data[i] = crawled_data[j] => i = j

\* the second record of a run was yielded and its Page Record is not yet
\* appended
C39_Witness ==
  /\ pc = "resume" /\ Len(crawled_data) = 1 /\ Len(Yielded) = 2
  /\ Yielded[2] = cur

\* crawl() returned a list of three Page Records
C39_WitnessDone ==
  /\ pc = "done" /\ Len(crawled_data) = 3 /\ crawled_data = Yielded

(***************************************************************************)
(* Claims about fetch_logistics_news (SpecNews).                           *)
(***************************************************************************)
\* what the sources listed, in source order: NewsAPI first when there is an
\* API key, then the feeds that gave no error, in the order of the feed list
Listed ==
  (IF newsIn.api_key THEN newsIn.newsapi ELSE <<>>)
    \o (IF newsIn.feeds[1] = FeedError THEN <<>> ELSE newsIn.feeds[1])
    \o (IF newsIn.feeds[2] = FeedError THEN <<>> ELSE newsIn.feeds[2])
    \o (IF newsIn.feeds[3] = FeedError THEN <<>> ELSE newsIn.feeds[3])

HasUrl(article) == article.url \notin {NoUrl, ""}

\* C31: fetch_logistics_news returns articles with pairwise distinct,
\* non-empty URLs: for each URL listed, the first article listed with it,
\* in source order; and total_articles is the number of articles returned.
C31_UniqueArticles ==
  newsOut # NoNews =>
    LET out == newsOut.articles
    IN  /\ \A i \in DOMAIN out : HasUrl(out[i])
        /\ \A i, j \in DOMAIN out : out[i].url = out[j].url => i = j
        /\ \A i \in DOMAIN out :
             \E k \in DOMAIN Listed :
               /\ Listed[k] = out[i]
               /\ \A h \in 1..(k - 1) : Listed[h].url # out[i].url
        /\ \A i, j \in DOMAIN out : i < j => out[i].id < out[j].id
        /\ \A k \in DOMAIN Listed :
             HasUrl(Listed[k]) => \E i \in DOMAIN out : out[i].url = Listed[k].url
        /\ newsOut.total_articles = Len(out)

\* a call whose sources listed the same URL twice and an article without
\* URL, and that returned one article
C31_Witness ==
  /\ newsOut # NoNews /\ newsOut.total_articles = 1
  /\ Len(Listed) = 3
  /\ \E i, j \in DOMAIN Listed :
       i < j /\ HasUrl(Listed[i]) /\ Listed[i].url = Listed[j].url
  /\ \E i \in DOMAIN Listed : ~HasUrl(Listed[i])

(***************************************************************************)
(* Claims about two crawlers with interleaved steps (SpecTwo).             *)
(***************************************************************************)
\* what crawler i can see of its own run: its position, its queue, its
\* visited set and its dedup ledger
ViewOf(c, hp, i) ==
  [pc |-> c[i].pc, to_visit |-> c[i].to_visit, cur |-> c[i].cur,
   visited |-> hp[c[i].visited], ledger |-> hp[c[i].ledger]]

\* C40: when the steps of two crawlers are interleaved in any order, a step
\* of one crawler leaves the queue, the visited set and the dedup ledger of
\* the other as they were.
C40_NoInterference ==
  [][\A i \in Crawlers :
       (crs # <<>> /\ who' # i) => ViewOf(crs', heap', i) = ViewOf(crs, heap, i)]_vars

\* crawler 2 took a step while crawler 1 was between a yield and its
\* resumption, both having visited pages and recorded fingerprints
C40_Witness ==
  /\ who = 2
  /\ crs[1].pc = "yielded" /\ crs[2].pc = "resume"
  /\ heap[crs[1].visited] # {} /\ heap[crs[2].visited] # {}
  /\ heap[crs[1].ledger] # {} /\ heap[crs[2].ledger] # {}
  /\ crs[1].to_visit # crs[2].to_visit
====
